---------------------------- MODULE Spec2Model ----------------------------
(***************************************************************************)
(* A model of the Game Boy (Sharp LR35902) CPU core of emulador_gb:        *)
(* the register file, the flat 64 KiB memory, the ALU helpers of           *)
(* operations.rs and the instruction dispatch of gb.rs (CPU::execute and   *)
(* CPU::execute_cb_instruction).                                           *)
(*                                                                         *)
(* Two specifications are given.  Spec runs CPU::execute from the state    *)
(* CPU::new() builds, over a bounded family of memory images.  SpecAlu     *)
(* applies the pure ALU helpers to every pair of operand bytes.            *)
(***************************************************************************)
EXTENDS Integers, Sequences, FiniteSets, TLC

VARIABLES
    registers,        \* CPU.registers : Register
    memory,           \* CPU.memory.data, the bytes that are not zero
    cycles,           \* the value the last call of execute returned
    fatal,            \* "none", or the kind of panic that ended the run
    overflow_checks,  \* the build's integer overflow checks, once observed
    before,           \* registers and memory when the last execute began
    trace,            \* per call of execute so far: its opcode and the registers it began with
    alu               \* operands and result of one ALU helper call (SpecAlu)

vars == <<registers, memory, cycles, fatal, overflow_checks, before, trace, alu>>

-----------------------------------------------------------------------------
(* Machine integers.                                                       *)

MEMORY_SIZE == 65536

Byte == 0 .. 255

Word == 0 .. (MEMORY_SIZE - 1)

\* v as u8
AsU8(v) == v % 256

\* v as u16
AsU16(v) == v % MEMORY_SIZE

\* u16::wrapping_add, u16::wrapping_sub
wrapping_add16(x, y) == (x + y) % MEMORY_SIZE

wrapping_sub16(x, y) == (x - y + MEMORY_SIZE) % MEMORY_SIZE

\* u8::wrapping_add, u8::wrapping_sub
wrapping_add8(x, y) == (x + y) % 256

wrapping_sub8(x, y) == (x - y + 256) % 256

\* u8::overflowing_add, u8::overflowing_sub: <<value, overflowed>>
overflowing_add8(x, y) == << (x + y) % 256, x + y > 255 >>

overflowing_sub8(x, y) == << (x - y + 256) % 256, x < y >>

\* u16::overflowing_add
overflowing_add16(x, y) == << (x + y) % MEMORY_SIZE, x + y >= MEMORY_SIZE >>

\* x & y, bit by bit
RECURSIVE BitAnd(_, _)
BitAnd(x, y) ==
    IF x = 0 \/ y = 0 THEN 0
    ELSE (IF x % 2 = 1 /\ y % 2 = 1 THEN 1 ELSE 0) + 2 * BitAnd(x \div 2, y \div 2)

\* x | y, bit by bit
RECURSIVE BitOr(_, _)
BitOr(x, y) ==
    IF x = 0 THEN y
    ELSE IF y = 0 THEN x
    ELSE (IF x % 2 = 1 \/ y % 2 = 1 THEN 1 ELSE 0) + 2 * BitOr(x \div 2, y \div 2)

\* x ^ y, bit by bit
RECURSIVE BitXor(_, _)
BitXor(x, y) ==
    IF x = 0 THEN y
    ELSE IF y = 0 THEN x
    ELSE (IF x % 2 # y % 2 THEN 1 ELSE 0) + 2 * BitXor(x \div 2, y \div 2)

\* !x on a u8
Not8(x) == 255 - x

\* x << n and x >> n on a u8 (bits shifted out are lost)
Shl8(x, n) == (x * (2 ^ n)) % 256

Shr(x, n) == x \div (2 ^ n)

\* x << n on a u16
Shl16(x, n) == (x * (2 ^ n)) % MEMORY_SIZE

BoolToInt(p) == IF p THEN 1 ELSE 0

\* Option<bool>: Some(x) and unwrap
Some(x) == << x >>

unwrap(o) == o[1]

IsSome(o) == Len(o) = 1

-----------------------------------------------------------------------------
(* operations.rs: the ALU helpers.  A Result is a record of the value and  *)
(* the four optional flags.                                                *)

Result(value, zero, add_sub, half_carry, carry) ==
    [value |-> value, zero |-> zero, add_sub |-> add_sub,
     half_carry |-> half_carry, carry |-> carry]

half_carry_sum(a, b) == BitAnd(BitAnd(a, 15) + BitAnd(b, 15), 16) = 16

half_carry_sub(a, b) == BitAnd(a, 15) < BitAnd(b, 15)

\* add with the half carry taken from bit 7 instead of bit 3
add_HalfCarryFromBit7(a, b) ==
    LET r == overflowing_add8(a, b)
    IN  Result(r[1], Some(r[1] = 0), Some(FALSE), Some(r[2]), Some(r[2]))

add(a, b) ==
    LET r == overflowing_add8(a, b)
    IN  Result(r[1], Some(r[1] = 0), Some(FALSE), Some(half_carry_sum(a, b)), Some(r[2]))

adc(a, b, carry) ==
    LET r1 == overflowing_add8(a, b)
        r2 == overflowing_add8(r1[1], IF carry THEN 1 ELSE 0)
    IN  Result(r2[1], Some(r2[1] = 0), Some(FALSE), Some(half_carry_sum(a, b)),
               Some(r1[2] \/ r2[2]))

\* sub whose borrow is also set when the operands are equal
sub_BorrowOnEqual(a, b) ==
    LET r == overflowing_sub8(a, b)
    IN  Result(r[1], Some(r[1] = 0), Some(TRUE), Some(half_carry_sub(a, b)), Some(a <= b))

sub(a, b) ==
    LET r == overflowing_sub8(a, b)
    IN  Result(r[1], Some(r[1] = 0), Some(TRUE), Some(half_carry_sub(a, b)), Some(r[2]))

sbc(a, b, carry) ==
    LET r1 == overflowing_sub8(a, b)
        r2 == overflowing_sub8(r1[1], IF carry THEN 1 ELSE 0)
    IN  Result(r2[1], Some(r2[1] = 0), Some(TRUE), Some(half_carry_sub(a, b)),
               Some(r1[2] \/ r2[2]))

\* and that clears the half carry as or and xor do
and_HalfCarryClear(a, b) ==
    LET value == BitAnd(a, b)
    IN  Result(value, Some(value = 0), Some(FALSE), Some(FALSE), Some(FALSE))

and(a, b) ==
    LET value == BitAnd(a, b)
    IN  Result(value, Some(value = 0), Some(FALSE), Some(TRUE), Some(FALSE))

or(a, b) ==
    LET value == BitOr(a, b)
    IN  Result(value, Some(value = 0), Some(FALSE), Some(FALSE), Some(FALSE))

xor(a, b) ==
    LET value == BitXor(a, b)
    IN  Result(value, Some(value = 0), Some(FALSE), Some(FALSE), Some(FALSE))

\* cp that returns the difference as sub does
cp_ValueIsDifference(a, b) ==
    LET r == overflowing_sub8(a, b)
    IN  Result(r[1], Some(a = b), Some(TRUE), Some(half_carry_sub(a, b)), Some(r[2]))

cp(a, b) ==
    LET r == overflowing_sub8(a, b)
    IN  Result(a, Some(a = b), Some(TRUE), Some(half_carry_sub(a, b)), Some(r[2]))

\* inc that loses bit 7 of its operand
inc_ClearsBit7(value) == add(value % 128, 1)

inc(value) == add(value, 1)

dec(value) == sub(value, 1)

add_sp(value, offset) ==
    LET r == overflowing_add16(value, AsU16(offset))
    IN  Result(r[1], Some(FALSE), Some(FALSE),
               Some(BitAnd(value, 15) + BitAnd(AsU16(offset), 15) > 15), Some(r[2]))

\* rlc that drops bit 7 instead of rotating it into bit 0
rlc_DropsBit7(value) ==
    LET carry == BitAnd(value, 128) # 0
        result == Shl8(value, 1)
    IN  Result(result, Some(result = 0), Some(FALSE), Some(FALSE), Some(carry))

rlc(value) ==
    LET carry == BitAnd(value, 128) # 0
        result == BitOr(Shl8(value, 1), IF carry THEN 1 ELSE 0)
    IN  Result(result, Some(result = 0), Some(FALSE), Some(FALSE), Some(carry))

rrc(value) ==
    LET carry == BitAnd(value, 1) # 0
        result == BitOr(Shr(value, 1), IF carry THEN 128 ELSE 0)
    IN  Result(result, Some(result = 0), Some(FALSE), Some(FALSE), Some(carry))

rl(value, flags) ==
    LET seven == BitAnd(Shr(value, 7), 1) # 0
        carry == Shr(BitAnd(flags, 16), 4)
        result == BitOr(Shl8(value, 1), carry)
    IN  Result(result, Some(result = 0), Some(FALSE), Some(FALSE), Some(seven))

rr(value, flags) ==
    LET zero == BitAnd(value, 1) # 0
        carry == Shr(BitAnd(flags, 16), 4)
        result == BitOr(Shr(value, 1), Shl8(carry, 7))
    IN  Result(result, Some(result = 0), Some(FALSE), Some(FALSE), Some(zero))

sla(value) ==
    LET carry == BitAnd(value, 128) # 0
        result == Shl8(value, 1)
    IN  Result(result, Some(result = 0), Some(FALSE), Some(FALSE), Some(carry))

sra(value) ==
    LET carry == BitAnd(value, 128) # 0
        result == BitOr(Shr(value, 1), BitAnd(value, 128))
    IN  Result(result, Some(result = 0), Some(FALSE), Some(FALSE), Some(carry))

-----------------------------------------------------------------------------
(* gb.rs: the register file, the memory and the CPU's helper methods.  A   *)
(* cpu is the record [registers, memory]; a method taking &mut self is an  *)
(* operator from a cpu to the cpu it leaves.                               *)

\* Register::new(): the post-boot register values
Register_new ==
    [a |-> 1, b |-> 0, c |-> 19, d |-> 0, e |-> 216, h |-> 1, l |-> 77,
     f |-> 176, sp |-> 65534, pc |-> 256]

\* Memory::new(): every byte zero.  A memory is the function from the
\* addresses of its nonzero bytes to those bytes.
Memory_new == << >>

\* self.memory.data[addr]
Rd(mem, addr) == IF addr \in DOMAIN mem THEN mem[addr] ELSE 0

\* self.memory.data[addr] = value
Wr(mem, addr, value) ==
    LET keep == IF value = 0 THEN (DOMAIN mem) \ {addr} ELSE (DOMAIN mem) \cup {addr}
    IN  [x \in keep |-> IF x = addr THEN value ELSE mem[x]]

\* cpu.memory.data[addr] = value
Store(cpu, addr, value) == [cpu EXCEPT !.memory = Wr(@, addr, value)]

\* get_flag_bit with Flag::C one bit too low
get_flag_bit_CarryAtBit3(flag) ==
    CASE flag = "Z" -> Shl8(1, 7)
      [] flag = "N" -> Shl8(1, 6)
      [] flag = "H" -> Shl8(1, 5)
      [] flag = "C" -> Shl8(1, 3)

get_flag_bit(flag) ==
    CASE flag = "Z" -> Shl8(1, 7)
      [] flag = "N" -> Shl8(1, 6)
      [] flag = "H" -> Shl8(1, 5)
      [] flag = "C" -> Shl8(1, 4)

get_flag(cpu, flag) == BitAnd(cpu.registers.f, get_flag_bit(flag)) # 0

set_flag(cpu, flag, value) ==
    IF value
    THEN [cpu EXCEPT !.registers.f = BitOr(@, get_flag_bit(flag))]
    ELSE [cpu EXCEPT !.registers.f = BitAnd(@, Not8(get_flag_bit(flag)))]

get_af(cpu) == BitOr(Shl16(cpu.registers.a, 8), cpu.registers.f)

get_bc(cpu) == BitOr(Shl16(cpu.registers.b, 8), cpu.registers.c)

get_de(cpu) == BitOr(Shl16(cpu.registers.d, 8), cpu.registers.e)

get_hl(cpu) == BitOr(Shl16(cpu.registers.h, 8), cpu.registers.l)

set_af(cpu, value) ==
    [cpu EXCEPT !.registers.a = AsU8(Shr(value, 8)), !.registers.f = AsU8(value)]

set_bc(cpu, value) ==
    [cpu EXCEPT !.registers.b = AsU8(Shr(value, 8)), !.registers.c = AsU8(value)]

set_de(cpu, value) ==
    [cpu EXCEPT !.registers.d = AsU8(Shr(value, 8)), !.registers.e = AsU8(value)]

set_hl(cpu, value) ==
    [cpu EXCEPT !.registers.h = AsU8(Shr(value, 8)), !.registers.l = AsU8(value)]

\* A method that returns a value: the cpu it leaves and the value.
Got(cpu, value) == [cpu |-> cpu, value |-> value]

next_instruction(cpu) ==
    Got([cpu EXCEPT !.registers.pc = wrapping_add16(@, 1)],
        Rd(cpu.memory, cpu.registers.pc))

read_word(cpu) ==
    Got([cpu EXCEPT !.registers.pc = wrapping_add16(@, 2)],
        BitOr(Rd(cpu.memory, cpu.registers.pc),
              Shl16(Rd(cpu.memory, wrapping_add16(cpu.registers.pc, 1)), 8)))

pop(cpu) ==
    Got([cpu EXCEPT !.registers.sp = wrapping_add16(@, 1)],
        BitOr(Rd(cpu.memory, cpu.registers.sp),
              Shl16(Rd(cpu.memory, wrapping_add16(cpu.registers.sp, 1)), 8)))

push(cpu, value) ==
    LET sp1 == wrapping_sub16(cpu.registers.sp, 1)
        sp2 == wrapping_sub16(sp1, 1)
        m1  == Wr(cpu.memory, sp1, AsU8(Shr(value, 8)))
        m2  == Wr(m1, sp2, AsU8(BitAnd(value, 255)))
    IN  [cpu EXCEPT !.registers.sp = sp2, !.memory = m2]

\* The two bytes "next_instruction() as u16 | (next_instruction() as u16) << 8"
next_word(cpu) ==
    LET lo == next_instruction(cpu)
        hi == next_instruction(lo.cpu)
    IN  Got(hi.cpu, BitOr(lo.value, Shl16(hi.value, 8)))

-----------------------------------------------------------------------------
(* The outcome of a dispatch arm: the cpu it leaves and either the cycle   *)
(* count it returns or the panic that ends it.                             *)

Return(cpu, n) == [cpu |-> cpu, cycles |-> n, fatal |-> "none"]

Panic(cpu, kind) == [cpu |-> cpu, cycles |-> 0, fatal |-> kind]

\* The 8-bit operand the low three bits of an opcode select:
\* B, C, D, E, H, L, (HL), A
Reg8(cpu, i) ==
    CASE i = 0 -> cpu.registers.b
      [] i = 1 -> cpu.registers.c
      [] i = 2 -> cpu.registers.d
      [] i = 3 -> cpu.registers.e
      [] i = 4 -> cpu.registers.h
      [] i = 5 -> cpu.registers.l
      [] i = 6 -> Rd(cpu.memory, get_hl(cpu))
      [] i = 7 -> cpu.registers.a

SetReg8(cpu, i, value) ==
    CASE i = 0 -> [cpu EXCEPT !.registers.b = value]
      [] i = 1 -> [cpu EXCEPT !.registers.c = value]
      [] i = 2 -> [cpu EXCEPT !.registers.d = value]
      [] i = 3 -> [cpu EXCEPT !.registers.e = value]
      [] i = 4 -> [cpu EXCEPT !.registers.h = value]
      [] i = 5 -> [cpu EXCEPT !.registers.l = value]
      [] i = 6 -> Store(cpu, get_hl(cpu), value)
      [] i = 7 -> [cpu EXCEPT !.registers.a = value]

\* set_flag(Z, ..); set_flag(N, ..); set_flag(H, ..)
SetZNH(cpu, z, n, h) == set_flag(set_flag(set_flag(cpu, "Z", z), "N", n), "H", h)

\* set_flag(Z, ..); set_flag(N, ..); set_flag(H, ..); set_flag(C, ..)
SetZNHC(cpu, z, n, h, c) == set_flag(SetZNH(cpu, z, n, h), "C", c)

-----------------------------------------------------------------------------
(* gb.rs, CPU::execute: the arms of opcodes 0x00 .. 0x3F.  In every arm    *)
(* cpu is the cpu after the opcode byte was fetched.                       *)

\* The 16-bit operand bits 5..4 of an opcode select: BC, DE, HL, SP
Reg16(cpu, i) ==
    CASE i = 0 -> get_bc(cpu)
      [] i = 1 -> get_de(cpu)
      [] i = 2 -> get_hl(cpu)
      [] i = 3 -> cpu.registers.sp

SetReg16(cpu, i, value) ==
    CASE i = 0 -> set_bc(cpu, value)
      [] i = 1 -> set_de(cpu, value)
      [] i = 2 -> set_hl(cpu, value)
      [] i = 3 -> [cpu EXCEPT !.registers.sp = value]

\* 0x01, 0x11, 0x21, 0x31: LD rr, d16
LdReg16Imm(cpu, op) ==
    LET w == next_word(cpu)
    IN  Return(SetReg16(w.cpu, Shr(op, 4), w.value), 3)

\* 0x02, 0x12: LD (BC), A and LD (DE), A; 0x22, 0x32: LDI / LDD (HL), A
StoreAIndirect(cpu, op) ==
    CASE op = 2  -> Return(Store(cpu, get_bc(cpu), cpu.registers.a), 2)
      [] op = 18 -> Return(Store(cpu, get_de(cpu), cpu.registers.a), 2)
      [] op = 34 -> LET c1 == Store(cpu, get_hl(cpu), cpu.registers.a)
                    IN  Return(set_hl(c1, wrapping_add16(get_hl(c1), 1)), 2)
      [] op = 50 -> LET c1 == Store(cpu, get_hl(cpu), cpu.registers.a)
                    IN  Return(set_hl(c1, wrapping_sub16(get_hl(c1), 1)), 2)

\* 0x0A, 0x1A: LD A, (BC) and LD A, (DE); 0x2A, 0x3A: LDI / LDD A, (HL)
LoadAIndirect(cpu, op) ==
    CASE op = 10 -> Return([cpu EXCEPT !.registers.a = Rd(cpu.memory, get_bc(cpu))], 2)
      [] op = 26 -> Return([cpu EXCEPT !.registers.a = Rd(cpu.memory, get_de(cpu))], 2)
      [] op = 42 -> LET c1 == [cpu EXCEPT !.registers.a = Rd(cpu.memory, get_hl(cpu))]
                    IN  Return(set_hl(c1, wrapping_add16(get_hl(c1), 1)), 2)
      [] op = 58 -> LET c1 == [cpu EXCEPT !.registers.a = Rd(cpu.memory, get_hl(cpu))]
                    IN  Return(set_hl(c1, wrapping_sub16(get_hl(c1), 1)), 2)

\* 0x03, 0x13, 0x23, 0x33: INC rr
IncReg16(cpu, op) ==
    LET i == Shr(op, 4)
    IN  Return(SetReg16(cpu, i, wrapping_add16(Reg16(cpu, i), 1)), 2)

\* 0x0B, 0x1B, 0x2B, 0x3B: DEC rr
DecReg16(cpu, op) ==
    LET i == Shr(op, 4)
    IN  Return(SetReg16(cpu, i, wrapping_sub16(Reg16(cpu, i), 1)), 2)

\* INC r that also writes the carry of the addition to C
IncReg8_WritesCarry(cpu, op) ==
    LET i      == Shr(op, 3)
        result == inc(Reg8(cpu, i))
        c1     == SetReg8(cpu, i, result.value)
    IN  Return(SetZNHC(c1, unwrap(result.zero), unwrap(result.add_sub),
                       unwrap(result.half_carry), unwrap(result.carry)),
               IF i = 6 THEN 3 ELSE 1)

\* 0x04, 0x0C, ..., 0x3C: INC r, and 0x34: INC (HL)
IncReg8(cpu, op) ==
    LET i      == Shr(op, 3)
        result == inc(Reg8(cpu, i))
        c1     == SetReg8(cpu, i, result.value)
    IN  Return(SetZNH(c1, unwrap(result.zero), unwrap(result.add_sub),
                      unwrap(result.half_carry)),
               IF i = 6 THEN 3 ELSE 1)

\* 0x05, 0x0D, ..., 0x3D: DEC r, and 0x35: DEC (HL)
DecReg8(cpu, op) ==
    LET i      == Shr(op, 3)
        result == dec(Reg8(cpu, i))
        c1     == SetReg8(cpu, i, result.value)
    IN  Return(SetZNH(c1, unwrap(result.zero), unwrap(result.add_sub),
                      unwrap(result.half_carry)),
               IF i = 6 THEN 3 ELSE 1)

\* 0x06, 0x0E, ..., 0x3E: LD r, d8, and 0x36: LD (HL), d8
LdReg8Imm(cpu, op) ==
    LET i == Shr(op, 3)
        n == next_instruction(cpu)
    IN  Return(SetReg8(n.cpu, i, n.value), IF i = 6 THEN 3 ELSE 2)

\* 0x07 RLCA, 0x0F RRCA, 0x17 RLA, 0x1F RRA
RotateA(cpu, op) ==
    LET a == cpu.registers.a
    IN  CASE op = 7 ->
              LET carry == Shr(a, 7)
                  c1 == set_flag(cpu, "C", carry = 1)
                  c2 == [c1 EXCEPT !.registers.a = BitOr(Shl8(a, 1), carry)]
              IN  Return(SetZNH(c2, FALSE, FALSE, FALSE), 1)
          [] op = 15 ->
              LET carry == BitAnd(a, 1)
                  c1 == set_flag(cpu, "C", carry = 1)
                  c2 == [c1 EXCEPT !.registers.a = BitOr(Shr(a, 1), Shl8(carry, 7))]
              IN  Return(SetZNH(c2, FALSE, FALSE, FALSE), 1)
          [] op = 23 ->
              LET carry == Shr(a, 7)
                  c1 == [cpu EXCEPT !.registers.a =
                             BitOr(Shl8(a, 1), BoolToInt(get_flag(cpu, "C")))]
                  c2 == set_flag(c1, "C", carry = 1)
              IN  Return(SetZNH(c2, FALSE, FALSE, FALSE), 1)
          [] op = 31 ->
              LET carry == BitAnd(a, 1)
                  c1 == [cpu EXCEPT !.registers.a =
                             BitOr(Shr(a, 1), Shl8(BoolToInt(get_flag(cpu, "C")), 7))]
                  c2 == set_flag(c1, "C", carry = 1)
              IN  Return(SetZNH(c2, FALSE, FALSE, FALSE), 1)

\* 0x08: LD (a16), SP.  "address + 1" is a u16 addition: with the build's
\* overflow checks on it panics at address 0xFFFF, with them off it wraps.
LdAddrSp(cpu, checks) ==
    LET w       == next_word(cpu)
        address == w.value
        c1      == Store(w.cpu, address, AsU8(cpu.registers.sp))
    IN  IF address + 1 >= MEMORY_SIZE /\ checks
        THEN Panic(c1, "overflow")
        ELSE Return(Store(c1, AsU16(address + 1), AsU8(Shr(cpu.registers.sp, 8))), 5)

\* 0x09, 0x19, 0x29, 0x39: ADD HL, rr.  The flags are computed after
\* set_hl, from the HL it has written.
AddHl(cpu, op) ==
    LET i      == Shr(op, 4)
        result == wrapping_add16(get_hl(cpu), Reg16(cpu, i))
        c1     == set_hl(cpu, result)
        c2     == set_flag(c1, "N", FALSE)
        c3     == set_flag(c2, "H",
                      BitAnd(get_hl(c2), 4095) + BitAnd(Reg16(c2, i), 4095) > 4095)
        c4     == set_flag(c3, "C", get_hl(c3) + Reg16(c3, i) > 65535)
    IN  Return(c4, 2)

\* 0x10: STOP
Stop(cpu) == Return(cpu, 1)

\* The condition bits 4..3 of a conditional opcode select: NZ, Z, NC, C
Condition(cpu, i) ==
    CASE i = 0 -> ~get_flag(cpu, "Z")
      [] i = 1 -> get_flag(cpu, "Z")
      [] i = 2 -> ~get_flag(cpu, "C")
      [] i = 3 -> get_flag(cpu, "C")

\* 0x18: JR s8
Jr(cpu) ==
    LET n      == next_instruction(cpu)
        offset == AsU16(AsU8(n.value))
    IN  Return([n.cpu EXCEPT !.registers.pc = wrapping_add16(@, offset)], 3)

\* 0x20, 0x28, 0x30, 0x38: JR NZ / Z / NC / C, s8
JrCond(cpu, op) ==
    LET n      == next_instruction(cpu)
        offset == AsU16(AsU8(n.value))
    IN  IF Condition(n.cpu, Shr(op, 3) - 4)
        THEN Return([n.cpu EXCEPT !.registers.pc = wrapping_add16(@, offset)], 3)
        ELSE Return(n.cpu, 2)

\* DAA that adds the adjustment whatever N is
Daa_AlwaysAdds(cpu) ==
    LET a0 == cpu.registers.a
        adjust1 == IF get_flag(cpu, "H") \/ (~get_flag(cpu, "N") /\ BitAnd(a0, 15) > 9)
                   THEN 6 ELSE 0
        high == get_flag(cpu, "C") \/ (~get_flag(cpu, "N") /\ a0 > 153)
        adjust == IF high THEN BitOr(adjust1, 96) ELSE adjust1
        c1 == IF high THEN set_flag(cpu, "C", TRUE) ELSE cpu
        a  == wrapping_add8(a0, adjust)
        c2 == set_flag(c1, "Z", a = 0)
        c3 == set_flag(c2, "H", FALSE)
    IN  Return([c3 EXCEPT !.registers.a = a], 1)

\* 0x27: DAA
Daa(cpu) ==
    LET a0 == cpu.registers.a
        adjust1 == IF get_flag(cpu, "H") \/ (~get_flag(cpu, "N") /\ BitAnd(a0, 15) > 9)
                   THEN 6 ELSE 0
        high == get_flag(cpu, "C") \/ (~get_flag(cpu, "N") /\ a0 > 153)
        adjust == IF high THEN BitOr(adjust1, 96) ELSE adjust1
        c1 == IF high THEN set_flag(cpu, "C", TRUE) ELSE cpu
        a  == IF get_flag(c1, "N") THEN wrapping_sub8(a0, adjust)
                                   ELSE wrapping_add8(a0, adjust)
        c2 == set_flag(c1, "Z", a = 0)
        c3 == set_flag(c2, "H", FALSE)
    IN  Return([c3 EXCEPT !.registers.a = a], 1)

\* 0x2F: CPL
Cpl(cpu) ==
    LET c1 == [cpu EXCEPT !.registers.a = Not8(@)]
    IN  Return(set_flag(set_flag(c1, "N", TRUE), "H", TRUE), 1)

\* 0x37: SCF
Scf(cpu) ==
    Return(set_flag(set_flag(set_flag(cpu, "N", FALSE), "H", FALSE), "C", TRUE), 1)

\* 0x3F: CCF
Ccf(cpu) ==
    LET c == get_flag(cpu, "C")
    IN  Return(set_flag(set_flag(set_flag(cpu, "N", FALSE), "H", FALSE), "C", ~c), 1)

Execute_00_3F(cpu, op, checks) ==
    LET lo == op % 16
    IN  CASE op = 0 -> Return(cpu, 1)
          [] op = 8 -> LdAddrSp(cpu, checks)
          [] op = 16 -> Stop(cpu)
          [] op = 24 -> Jr(cpu)
          [] op \in {32, 40, 48, 56} -> JrCond(cpu, op)
          [] op = 39 -> Daa(cpu)
          [] op = 47 -> Cpl(cpu)
          [] op = 55 -> Scf(cpu)
          [] op = 63 -> Ccf(cpu)
          [] op \in {7, 15, 23, 31} -> RotateA(cpu, op)
          [] lo = 1 -> LdReg16Imm(cpu, op)
          [] lo = 2 -> StoreAIndirect(cpu, op)
          [] lo = 3 -> IncReg16(cpu, op)
          [] lo = 9 -> AddHl(cpu, op)
          [] lo = 10 -> LoadAIndirect(cpu, op)
          [] lo = 11 -> DecReg16(cpu, op)
          [] lo \in {4, 12} -> IncReg8(cpu, op)
          [] lo \in {5, 13} -> DecReg8(cpu, op)
          [] lo \in {6, 14} -> LdReg8Imm(cpu, op)

-----------------------------------------------------------------------------
(* gb.rs, CPU::execute: the arms of opcodes 0x40 .. 0xBF.                  *)

\* 0x40 .. 0x7F but 0x76: LD r, r'.  Every arm with (HL) as an operand
\* returns 2 and every other arm 1, except 0x7E (LD A, (HL)), which returns 1.
LdReg8Reg8(cpu, op) ==
    LET dst == Shr(op, 3) - 8
        src == op % 8
    IN  Return(SetReg8(cpu, dst, Reg8(cpu, src)),
               IF op = 126 THEN 1
               ELSE IF dst = 6 \/ src = 6 THEN 2 ELSE 1)

\* HALT that returns no cycles
Halt_NoCycles(cpu) == Return(cpu, 0)

\* 0x76: HALT
Halt(cpu) == Return(cpu, 1)

\* The arms of the eight 8-bit operations on A, with their operand:
\* ADD, ADC, SUB, SBC, AND, XOR, OR, CP
AluA(cpu, kind, operand) ==
    LET a == cpu.registers.a
    IN  CASE kind = 0 ->
              LET r == add(a, operand)
              IN  SetZNHC([cpu EXCEPT !.registers.a = r.value],
                          unwrap(r.zero), FALSE, unwrap(r.half_carry), unwrap(r.carry))
          [] kind = 1 ->
              LET r == adc(a, operand, get_flag(cpu, "C"))
              IN  SetZNHC([cpu EXCEPT !.registers.a = r.value],
                          unwrap(r.zero), FALSE, unwrap(r.half_carry), unwrap(r.carry))
          [] kind = 2 ->
              LET r == sub(a, operand)
              IN  SetZNHC([cpu EXCEPT !.registers.a = r.value],
                          unwrap(r.zero), TRUE, unwrap(r.half_carry), unwrap(r.carry))
          [] kind = 3 ->
              LET r == sbc(a, operand, get_flag(cpu, "C"))
              IN  SetZNHC([cpu EXCEPT !.registers.a = r.value],
                          unwrap(r.zero), TRUE, unwrap(r.half_carry), unwrap(r.carry))
          [] kind = 4 ->
              LET r == and(a, operand)
              IN  SetZNHC([cpu EXCEPT !.registers.a = r.value],
                          unwrap(r.zero), FALSE, TRUE, FALSE)
          [] kind = 5 ->
              LET r == xor(a, operand)
              IN  SetZNHC([cpu EXCEPT !.registers.a = r.value],
                          unwrap(r.zero), FALSE, FALSE, FALSE)
          [] kind = 6 ->
              LET r == or(a, operand)
              IN  SetZNHC([cpu EXCEPT !.registers.a = r.value],
                          unwrap(r.zero), FALSE, FALSE, FALSE)
          [] kind = 7 ->
              LET r == cp(a, operand)
              IN  SetZNHC(cpu, unwrap(r.zero), TRUE, unwrap(r.half_carry),
                          unwrap(r.carry))

\* 0x80 .. 0xBF: ADD / ADC / SUB / SBC / AND / XOR / OR / CP with a register or (HL)
AluAReg8(cpu, op) ==
    LET kind == Shr(op, 3) - 16
        src  == op % 8
    IN  Return(AluA(cpu, kind, Reg8(cpu, src)), IF src = 6 THEN 2 ELSE 1)

Execute_40_BF(cpu, op) ==
    CASE op = 118 -> Halt(cpu)
      [] op < 128 -> LdReg8Reg8(cpu, op)
      [] OTHER    -> AluAReg8(cpu, op)

-----------------------------------------------------------------------------
(* gb.rs, CPU::execute_cb_instruction.                                     *)

\* rlc, rrc, rl, rr, sla, sra: the operation bits 5..3 of the opcode select
CbOp(kind, value, flags) ==
    CASE kind = 0 -> rlc(value)
      [] kind = 1 -> rrc(value)
      [] kind = 2 -> rl(value, flags)
      [] kind = 3 -> rr(value, flags)
      [] kind = 4 -> sla(value)
      [] kind = 5 -> sra(value)

\* The register an arm of 0x00 .. 0x2F reads.  The arm of 0x0C (RRC H)
\* reads E, the arm of 0x0D (RRC L) reads H.
CbSource(instruction) ==
    CASE instruction = 12 -> 3
      [] instruction = 13 -> 4
      [] OTHER -> instruction % 8

\* The register an arm of 0x00 .. 0x2F writes.  The arm of 0x0D (RRC L)
\* writes E.
CbTarget(instruction) ==
    CASE instruction = 13 -> 3
      [] OTHER -> instruction % 8

execute_cb_instruction(cpu, instruction) ==
    IF instruction \in 0 .. 47
    THEN LET value == CbOp(Shr(instruction, 3), Reg8(cpu, CbSource(instruction)),
                           cpu.registers.f)
             c1    == SetReg8(cpu, CbTarget(instruction), value.value)
         IN  Return(SetZNHC(c1, unwrap(value.zero), FALSE, FALSE, unwrap(value.carry)),
                    IF instruction % 8 = 6 THEN 4 ELSE 2)
    ELSE Panic(cpu, "unhandled")

-----------------------------------------------------------------------------
(* gb.rs, CPU::execute: the arms of opcodes 0xC0 .. 0xFF.                  *)

\* 0xC0, 0xC8, 0xD0, 0xD8: RET NZ / Z / NC / C
RetCond(cpu, op) ==
    IF Condition(cpu, Shr(op, 3) - 24)
    THEN LET p == pop(cpu)
         IN  Return([p.cpu EXCEPT !.registers.pc = p.value], 5)
    ELSE Return(cpu, 2)

\* 0xC9: RET
Ret(cpu) ==
    LET p == pop(cpu)
    IN  Return([p.cpu EXCEPT !.registers.pc = p.value], 4)

\* 0xD9: RETI
Reti(cpu) == Return(cpu, 4)

\* 0xC1, 0xD1, 0xE1, 0xF1: POP BC / DE / HL / AF
PopReg16(cpu, op) ==
    LET p == pop(cpu)
    IN  CASE op = 193 -> Return(set_bc(p.cpu, p.value), 3)
          [] op = 209 -> Return(set_de(p.cpu, p.value), 3)
          [] op = 225 -> Return(set_hl(p.cpu, p.value), 3)
          [] op = 241 -> Return(set_af(p.cpu, p.value), 3)

\* 0xC5, 0xD5, 0xE5, 0xF5: PUSH BC / DE / HL / AF
PushReg16(cpu, op) ==
    CASE op = 197 -> Return(push(cpu, get_bc(cpu)), 4)
      [] op = 213 -> Return(push(cpu, get_de(cpu)), 4)
      [] op = 229 -> Return(push(cpu, get_hl(cpu)), 4)
      [] op = 245 -> Return(push(cpu, get_af(cpu)), 4)

\* 0xC2, 0xCA, 0xD2, 0xDA: JP NZ / Z / NC / C, a16
JpCond(cpu, op) ==
    LET w == read_word(cpu)
    IN  IF Condition(w.cpu, Shr(op, 3) - 24)
        THEN Return([w.cpu EXCEPT !.registers.pc = w.value], 4)
        ELSE Return(w.cpu, 3)

\* 0xC3: JP a16
Jp(cpu) ==
    LET w == read_word(cpu)
    IN  Return([w.cpu EXCEPT !.registers.pc = w.value], 4)

\* 0xE9: JP (HL)
JpHl(cpu) == Return([cpu EXCEPT !.registers.pc = get_hl(cpu)], 1)

\* CALL cc that returns the taken cost whether or not it branches
CallCond_TakenCostOnly(cpu, op) ==
    LET w == read_word(cpu)
    IN  IF Condition(w.cpu, Shr(op, 3) - 24)
        THEN LET c1 == push(w.cpu, w.cpu.registers.pc)
             IN  Return([c1 EXCEPT !.registers.pc = w.value], 6)
        ELSE Return(w.cpu, 6)

\* 0xC4, 0xCC, 0xD4, 0xDC: CALL NZ / Z / NC / C, a16
CallCond(cpu, op) ==
    LET w == read_word(cpu)
    IN  IF Condition(w.cpu, Shr(op, 3) - 24)
        THEN LET c1 == push(w.cpu, w.cpu.registers.pc)
             IN  Return([c1 EXCEPT !.registers.pc = w.value], 6)
        ELSE Return(w.cpu, 3)

\* 0xCD: CALL a16
Call(cpu) ==
    LET w  == read_word(cpu)
        c1 == push(w.cpu, w.cpu.registers.pc)
    IN  Return([c1 EXCEPT !.registers.pc = w.value], 6)

\* 0xC7, 0xCF, ..., 0xFF: RST 00H .. 38H
Rst(cpu, op) ==
    LET c1 == push(cpu, cpu.registers.pc)
    IN  Return([c1 EXCEPT !.registers.pc = op - 199], 4)

\* 0xC6, 0xCE, 0xD6, 0xDE, 0xE6, 0xEE, 0xF6, 0xFE:
\* ADD / ADC / SUB / SBC / AND / XOR / OR / CP d8.  The arms take the operand
\* from self.memory.data[self.registers.sp] and fetch nothing.
AluAImm(cpu, op) ==
    LET kind == Shr(op, 3) - 24
    IN  Return(AluA(cpu, kind, Rd(cpu.memory, cpu.registers.sp)), 2)

\* 0xE0: LDH (a8), A and 0xF0: LDH A, (a8)
Ldh(cpu, op) ==
    LET n       == next_instruction(cpu)
        address == 65280 + AsU16(n.value)
    IN  IF op = 224
        THEN Return(Store(n.cpu, address, n.cpu.registers.a), 3)
        ELSE Return([n.cpu EXCEPT !.registers.a = Rd(n.cpu.memory, address)], 3)

\* 0xE2: LD (C), A and 0xF2: LD A, (C)
LdC(cpu, op) ==
    LET address == 65280 + AsU16(cpu.registers.c)
    IN  IF op = 226
        THEN Return(Store(cpu, address, cpu.registers.a), 2)
        ELSE Return([cpu EXCEPT !.registers.a = Rd(cpu.memory, address)], 2)

\* 0xEA: LD (a16), A and 0xFA: LD A, (a16)
LdAddrA(cpu, op) ==
    LET w == read_word(cpu)
    IN  IF op = 234
        THEN Return(Store(w.cpu, w.value, w.cpu.registers.a), 4)
        ELSE Return([w.cpu EXCEPT !.registers.a = Rd(w.cpu.memory, w.value)], 4)

\* 0xE8: ADD SP, r8 and 0xF8: LD HL, SP+r8.  The arms take r8 from
\* self.memory.data[self.registers.sp] and fetch nothing.
AddSp(cpu, op) ==
    LET value  == Rd(cpu.memory, cpu.registers.sp)
        result == add_sp(cpu.registers.sp, value)
        c1     == IF op = 232 THEN [cpu EXCEPT !.registers.sp = result.value]
                              ELSE set_hl(cpu, result.value)
    IN  Return(SetZNHC(c1, unwrap(result.zero), FALSE, unwrap(result.half_carry),
                       unwrap(result.carry)),
               IF op = 232 THEN 4 ELSE 3)

\* 0xF9: LD SP, HL
LdSpHl(cpu) == Return([cpu EXCEPT !.registers.sp = get_hl(cpu)], 2)

\* 0xF3: DI and 0xFB: EI
DiEi(cpu) == Return(cpu, 1)

\* 0xCB: the prefix
Prefix(cpu) ==
    LET opcode == next_instruction(cpu)
    IN  execute_cb_instruction(opcode.cpu, opcode.value)

Execute_C0_FF(cpu, op) ==
    LET lo == op % 8
    IN  CASE op = 201 -> Ret(cpu)
          [] op = 217 -> Reti(cpu)
          [] op = 195 -> Jp(cpu)
          [] op = 203 -> Prefix(cpu)
          [] op = 205 -> Call(cpu)
          [] op = 233 -> JpHl(cpu)
          [] op = 249 -> LdSpHl(cpu)
          [] op \in {243, 251} -> DiEi(cpu)
          [] op \in {224, 240} -> Ldh(cpu, op)
          [] op \in {226, 242} -> LdC(cpu, op)
          [] op \in {234, 250} -> LdAddrA(cpu, op)
          [] op \in {232, 248} -> AddSp(cpu, op)
          [] op \in {192, 200, 208, 216} -> RetCond(cpu, op)
          [] op \in {194, 202, 210, 218} -> JpCond(cpu, op)
          [] op \in {196, 204, 212, 220} -> CallCond(cpu, op)
          [] op \in {193, 209, 225, 241} -> PopReg16(cpu, op)
          [] op \in {197, 213, 229, 245} -> PushReg16(cpu, op)
          [] op \in {198, 206, 214, 222, 230, 238, 246, 254} -> AluAImm(cpu, op)
          [] op \in {199, 207, 215, 223, 231, 239, 247, 255} -> Rst(cpu, op)
          [] OTHER -> Panic(cpu, "unhandled")

\* CPU::execute: fetch the opcode and dispatch on it
execute(cpu, checks) ==
    LET fetched == next_instruction(cpu)
        op      == fetched.value
    IN  CASE op < 64  -> Execute_00_3F(fetched.cpu, op, checks)
          [] op < 192 -> Execute_40_BF(fetched.cpu, op)
          [] OTHER    -> Execute_C0_FF(fetched.cpu, op)

-----------------------------------------------------------------------------
(* The memory images execution starts from.  CPU::new() leaves memory zero  *)
(* and the loader writes the program before the first call of execute; an  *)
(* image is a program at the post-boot PC and a word at the post-boot SP.  *)

MaxSteps == 6

\* mem with the bytes of seq written from address base on
RECURSIVE LoadAt(_, _, _)
LoadAt(mem, base, seq) ==
    IF seq = << >> THEN mem
    ELSE LoadAt(Wr(mem, base, Head(seq)), wrapping_add16(base, 1), Tail(seq))

\* The end-to-end programs of the specification's section 8
Scenarios ==
    { << 62, 69, 198, 56, 39, 118 >>,                       \* LD A,45; ADD A,38; DAA; HALT
      << 62, 0, 214, 1, 39, 118 >>,                         \* LD A,0; SUB 1; DAA; HALT
      << 62, 1, 254, 1, 32, 16, 118 >>,                     \* LD A,1; CP 1; JR NZ,+10; HALT
      << 49, 254, 255, 1, 52, 18, 197, 1, 0, 0, 193, 118 >>,\* LD SP; LD BC; PUSH BC; LD BC; POP BC; HALT
      << 33, 255, 15, 1, 1, 0, 9, 118 >>,                   \* LD HL,0FFF; LD BC,1; ADD HL,BC; HALT
      << 24, 254 >> }                                       \* JR -2

\* Short programs that bring the CPU into other register states before
\* the instruction that follows them
Setups ==
    { << >>,
      << 175 >>,          \* XOR A      (Z = 1, C = 0)
      << 183 >>,          \* OR A       (Z = 0, C = 0)
      << 4 >>,            \* INC B      (Z = 0, C = 1)
      << 241 >>,          \* POP AF
      << 245 >>,          \* PUSH AF
      << 241, 245 >>,     \* POP AF; PUSH AF
      << 49, 1, 0 >> }    \* LD SP, 0001

\* The two bytes that follow the opcode
OperandPairs == { << 0, 0 >>, << 5, 192 >>, << 254, 255 >>, << 255, 255 >> }

\* The word at the post-boot SP: low byte, high byte
StackWords == { << 0, 0 >>, << 15, 18 >>, << 241, 128 >> }

\* Subroutine calls, one deep and two deep
CallPrograms ==
    { << 205, 4, 1, 0, 201 >>,                    \* CALL 0104; NOP; 0104: RET
      << 205, 4, 1, 0, 205, 8, 1, 201, 201 >> }   \* CALL 0104; NOP; 0104: CALL 0108; RET; 0108: RET

Programs ==
    Scenarios
    \cup CallPrograms
    \cup { s \o << op >> \o p : s \in Setups, op \in Byte, p \in OperandPairs }
    \cup { s \o << 203, cb >> : s \in Setups, cb \in Byte }

Image(program, word) ==
    LoadAt(LoadAt(Memory_new, Register_new.pc, program), Register_new.sp, word)

Images == { Image(program, word) : program \in Programs, word \in StackWords }

-----------------------------------------------------------------------------
(* Spec: the CPU runs execute again and again until it panics.             *)

AluIdle ==
    [fn |-> "none", a |-> 0, b |-> 0, carry |-> FALSE,
     out |-> Result(0, Some(FALSE), Some(FALSE), Some(FALSE), Some(FALSE))]

\* CPU::new(), and the image loaded
Init ==
    /\ registers = Register_new
    /\ memory \in Images
    /\ cycles = 0
    /\ fatal = "none"
    /\ overflow_checks = "unknown"
    /\ before = [registers |-> Register_new, memory |-> Memory_new]
    /\ trace = << >>
    /\ alu = AluIdle

\* One call of CPU::execute.  A build checks integer overflow or does not;
\* which it is shows at the first overflowing addition.
Step ==
    /\ fatal = "none"
    /\ Len(trace) < MaxSteps
    /\ LET cpu      == [registers |-> registers, memory |-> memory]
           checked  == execute(cpu, TRUE)
           wrapping == execute(cpu, FALSE)
           outcomes == IF checked = wrapping THEN {wrapping}
                       ELSE CASE overflow_checks = "unknown" -> {checked, wrapping}
                              [] overflow_checks = "on"      -> {checked}
                              [] overflow_checks = "off"     -> {wrapping}
       IN  \E out \in outcomes :
             /\ registers' = out.cpu.registers
             /\ memory' = out.cpu.memory
             /\ cycles' = out.cycles
             /\ fatal' = out.fatal
             /\ overflow_checks' =
                    IF checked = wrapping THEN overflow_checks
                    ELSE IF out = checked THEN "on" ELSE "off"
             /\ before' = cpu
    /\ trace' = Append(trace, [op |-> Rd(memory, registers.pc), registers |-> registers])
    /\ alu' = alu

Next == Step

Spec == Init /\ [][Next]_vars

-----------------------------------------------------------------------------
(* SpecAlu: one call of an ALU helper of operations.rs on operand bytes.   *)

InitAlu ==
    /\ registers = Register_new
    /\ memory = Memory_new
    /\ cycles = 0
    /\ fatal = "none"
    /\ overflow_checks = "unknown"
    /\ before = [registers |-> Register_new, memory |-> Memory_new]
    /\ trace = << >>
    /\ alu \in { [AluIdle EXCEPT !.a = a] : a \in Byte }

CpuUnchanged ==
    UNCHANGED <<registers, memory, cycles, fatal, overflow_checks, before, trace>>

AluAdd ==
    /\ alu.fn = "none"
    /\ \E b \in Byte :
         alu' = [alu EXCEPT !.fn = "add", !.b = b, !.out = add(alu.a, b)]
    /\ CpuUnchanged

AluAdc ==
    /\ alu.fn = "none"
    /\ \E b \in Byte, carry \in BOOLEAN :
         alu' = [alu EXCEPT !.fn = "adc", !.b = b, !.carry = carry,
                            !.out = adc(alu.a, b, carry)]
    /\ CpuUnchanged

AluSub ==
    /\ alu.fn = "none"
    /\ \E b \in Byte :
         alu' = [alu EXCEPT !.fn = "sub", !.b = b, !.out = sub(alu.a, b)]
    /\ CpuUnchanged

AluSbc ==
    /\ alu.fn = "none"
    /\ \E b \in Byte, carry \in BOOLEAN :
         alu' = [alu EXCEPT !.fn = "sbc", !.b = b, !.carry = carry,
                            !.out = sbc(alu.a, b, carry)]
    /\ CpuUnchanged

AluAnd ==
    /\ alu.fn = "none"
    /\ \E b \in Byte :
         alu' = [alu EXCEPT !.fn = "and", !.b = b, !.out = and(alu.a, b)]
    /\ CpuUnchanged

AluOr ==
    /\ alu.fn = "none"
    /\ \E b \in Byte :
         alu' = [alu EXCEPT !.fn = "or", !.b = b, !.out = or(alu.a, b)]
    /\ CpuUnchanged

AluXor ==
    /\ alu.fn = "none"
    /\ \E b \in Byte :
         alu' = [alu EXCEPT !.fn = "xor", !.b = b, !.out = xor(alu.a, b)]
    /\ CpuUnchanged

AluCp ==
    /\ alu.fn = "none"
    /\ \E b \in Byte :
         alu' = [alu EXCEPT !.fn = "cp", !.b = b, !.out = cp(alu.a, b)]
    /\ CpuUnchanged

\* Operand bytes at the nibble and byte boundaries
OperandBytes == {0, 1, 15, 16, 127, 128, 255}

\* CP r (0xB8 .. 0xBF) executed by a CPU whose A holds a and whose operand r
\* holds b; for CP A the operand is A itself
ExecCp ==
    /\ alu.fn = "none"
    /\ \E b \in OperandBytes, op \in 184 .. 191 :
         LET loaded == [registers |-> [Register_new EXCEPT !.a = alu.a],
                        memory    |-> Wr(Memory_new, Register_new.pc, op)]
             cpu    == SetReg8(loaded, op % 8, b)
             out    == execute(cpu, FALSE)
         IN  /\ alu' = [alu EXCEPT !.fn = "CP r", !.a = cpu.registers.a, !.b = b]
             /\ registers' = out.cpu.registers
             /\ memory' = out.cpu.memory
             /\ cycles' = out.cycles
             /\ fatal' = out.fatal
             /\ before' = cpu
             /\ trace' = Append(trace, [op |-> op, registers |-> cpu.registers])
    /\ UNCHANGED overflow_checks

\* rlc applied n times in succession, and rrc
RECURSIVE RlcTimes(_, _)
RlcTimes(value, n) == IF n = 1 THEN rlc(value) ELSE rlc(RlcTimes(value, n - 1).value)

RECURSIVE RrcTimes(_, _)
RrcTimes(value, n) == IF n = 1 THEN rrc(value) ELSE rrc(RrcTimes(value, n - 1).value)

AluRlc ==
    /\ alu.fn = "none"
    /\ \E n \in 1 .. 8 :
         alu' = [alu EXCEPT !.fn = "rlc", !.b = n, !.out = RlcTimes(alu.a, n)]
    /\ CpuUnchanged

AluRrc ==
    /\ alu.fn = "none"
    /\ \E n \in 1 .. 8 :
         alu' = [alu EXCEPT !.fn = "rrc", !.b = n, !.out = RrcTimes(alu.a, n)]
    /\ CpuUnchanged

AluSra ==
    /\ alu.fn = "none"
    /\ alu' = [alu EXCEPT !.fn = "sra", !.out = sra(alu.a)]
    /\ CpuUnchanged

\* dec(inc(v).value): b holds the value between the two
AluIncDec ==
    /\ alu.fn = "none"
    /\ alu' = [alu EXCEPT !.fn = "inc;dec", !.b = inc(alu.a).value,
                          !.out = dec(inc(alu.a).value)]
    /\ CpuUnchanged

\* inc(dec(v).value): b holds the value between the two
AluDecInc ==
    /\ alu.fn = "none"
    /\ alu' = [alu EXCEPT !.fn = "dec;inc", !.b = dec(alu.a).value,
                          !.out = inc(dec(alu.a).value)]
    /\ CpuUnchanged

\* One call of execute by a CPU built for an instruction under test
Executes(cpu, fn, b) ==
    LET out == execute(cpu, FALSE)
    IN  /\ alu' = [alu EXCEPT !.fn = fn, !.b = b]
        /\ registers' = out.cpu.registers
        /\ memory' = out.cpu.memory
        /\ cycles' = out.cycles
        /\ fatal' = out.fatal
        /\ before' = cpu
        /\ trace' = Append(trace, [op |-> Rd(cpu.memory, cpu.registers.pc),
                                   registers |-> cpu.registers])
        /\ UNCHANGED overflow_checks

\* DAA (0x27) executed by a CPU whose A holds a, with every Z, N, H, C
ExecDaa ==
    /\ alu.fn = "none"
    /\ \E flags \in 0 .. 15 :
         Executes([registers |-> [Register_new EXCEPT !.a = alu.a, !.f = Shl8(flags, 4)],
                   memory    |-> Wr(Memory_new, Register_new.pc, 39)],
                  "DAA", Shl8(flags, 4))

\* INC r / DEC r (0x04, 0x05, 0x0C, 0x0D, .., 0x3C, 0x3D) executed by a CPU
\* whose operand r holds a, with every Z, N, H, C
ExecIncDec ==
    /\ alu.fn = "none"
    /\ \E flags \in 0 .. 15, i \in 0 .. 7, op \in {4, 5} :
         LET loaded == [registers |-> [Register_new EXCEPT !.f = Shl8(flags, 4)],
                        memory    |-> Wr(Memory_new, Register_new.pc, i * 8 + op)]
         IN  Executes(SetReg8(loaded, i, alu.a),
                      IF op = 4 THEN "INC r" ELSE "DEC r", i)

NextAlu == AluAdd \/ AluAdc \/ AluSub \/ AluSbc \/ AluAnd \/ AluOr \/ AluXor \/ AluCp
           \/ ExecCp \/ AluRlc \/ AluRrc \/ AluSra \/ AluIncDec \/ AluDecInc
           \/ ExecDaa \/ ExecIncDec

SpecAlu == InitAlu /\ [][NextAlu]_vars

-----------------------------------------------------------------------------
(* What the claims speak of: the instruction the last call of execute ran. *)

\* execute has run at least once
Executed == Len(trace) > 0

\* The opcode the last execute fetched, and the address it fetched it from
LastOp == trace[Len(trace)].op

LastAt == before.registers.pc

\* The byte that followed that opcode in memory
LastOperand == Rd(before.memory, (LastAt + 1) % 65536)

\* Flags of an F value, by arithmetic on the byte
ZOf(f) == (f \div 128) % 2 = 1

NOf(f) == (f \div 64) % 2 = 1

HOf(f) == (f \div 32) % 2 = 1

COf(f) == (f \div 16) % 2 = 1

\* An 8-bit two's-complement byte as an integer
SignExtend(e8) == IF e8 >= 128 THEN e8 - 256 ELSE e8

\* The bytes of program lie in mem from address base on
ProgramAt(mem, base, program) ==
    \A i \in 1 .. Len(program) : Rd(mem, (base + i - 1) % 65536) = program[i]

\* The last execute ran the HALT at address at, in a run of program
HaltedAt(program, at) ==
    /\ Executed
    /\ ProgramAt(before.memory, 256, program)
    /\ LastOp = 118
    /\ LastAt = at

-----------------------------------------------------------------------------
(* C1 .. C10                                                               *)

\* C1: in every reachable state the low nibble of F is zero, also after
\* POP AF whatever word is on the stack.
C1_FLowNibbleZero == registers.f % 16 = 0

\* C2: for every value v, push(v) followed by pop() returns v and leaves SP
\* as it was before the push; the program LD SP,FFFE; LD BC,1234; PUSH BC;
\* LD BC,0; POP BC; HALT ends with BC = 1234 and SP = FFFE.
C2_PushPopRoundTrip ==
    /\ \A v \in {4660, 65535, registers.pc, registers.a * 256 + registers.f,
                 registers.b * 256 + registers.c, registers.h * 256 + registers.l} :
         LET cpu    == [registers |-> registers, memory |-> memory]
             popped == pop(push(cpu, v))
         IN  /\ popped.value = v
             /\ popped.cpu.registers.sp = registers.sp
    /\ HaltedAt(<< 49, 254, 255, 1, 52, 18, 197, 1, 0, 0, 193, 118 >>, 267) =>
         /\ registers.b = 18
         /\ registers.c = 52
         /\ registers.sp = 65534

\* C3: PUSH AF immediately followed by POP AF leaves A as it was and F as it
\* was, ANDed with F0.
C3_PushPopAf ==
    (/\ Len(trace) >= 2
     /\ trace[Len(trace) - 1].op = 245
     /\ LastOp = 241
     /\ LastAt = (trace[Len(trace) - 1].registers.pc + 1) % 65536)
    => LET prior == trace[Len(trace) - 1].registers
       IN  /\ registers.a = prior.a
           /\ registers.f = (prior.f \div 16) * 16

\* C4: a taken JR at address p with offset byte e8 sets PC to
\* (p + 2 + sign_extend(e8)) mod 2^16.
C4_JrSignExtended ==
    (/\ Executed
     /\ \/ LastOp = 24
        \/ LastOp = 32 /\ ~ZOf(before.registers.f)
        \/ LastOp = 40 /\ ZOf(before.registers.f)
        \/ LastOp = 48 /\ ~COf(before.registers.f)
        \/ LastOp = 56 /\ COf(before.registers.f))
    => registers.pc = (LastAt + 2 + SignExtend(LastOperand) + 65536) % 65536

\* The A and F an 8-bit operation of the given kind leaves, by arithmetic:
\* ADD, ADC, SUB, SBC, AND, XOR, OR, CP of a with operand n and carry-in cin
AluExpected(kind, a, n, cin) ==
    LET c      == IF cin THEN 1 ELSE 0
        value  == CASE kind = 0 -> (a + n) % 256
                    [] kind = 1 -> (a + n + c) % 256
                    [] kind = 2 -> (a - n + 256) % 256
                    [] kind = 3 -> (a - n - c + 512) % 256
                    [] kind = 4 -> BitAnd(a, n)
                    [] kind = 5 -> BitXor(a, n)
                    [] kind = 6 -> BitOr(a, n)
                    [] kind = 7 -> (a - n + 256) % 256
        nf     == kind \in {2, 3, 7}
        hf     == CASE kind = 0 -> (a % 16) + (n % 16) > 15
                    [] kind = 1 -> (a % 16) + (n % 16) + c > 15
                    [] kind \in {2, 7} -> (a % 16) < (n % 16)
                    [] kind = 3 -> (a % 16) < (n % 16) + c
                    [] kind = 4 -> TRUE
                    [] OTHER -> FALSE
        cf     == CASE kind = 0 -> a + n > 255
                    [] kind = 1 -> a + n + c > 255
                    [] kind \in {2, 7} -> a < n
                    [] kind = 3 -> a < n + c
                    [] OTHER -> FALSE
    IN  [a |-> IF kind = 7 THEN a ELSE value,
         f |-> (IF value = 0 THEN 128 ELSE 0) + (IF nf THEN 64 ELSE 0)
               + (IF hf THEN 32 ELSE 0) + (IF cf THEN 16 ELSE 0)]

\* C5: an ALU-immediate opcode (C6, CE, D6, DE, E6, EE, F6, FE) at address p
\* takes the byte at p + 1 as its operand and leaves PC = p + 2; the program
\* LD A,45; ADD A,38; DAA; HALT ends with A = 83 and Z, N, H, C all 0.
C5_AluImmediate ==
    /\ (Executed /\ LastOp \in {198, 206, 214, 222, 230, 238, 246, 254}) =>
         LET expected == AluExpected((LastOp - 198) \div 8, before.registers.a,
                                     LastOperand, COf(before.registers.f))
         IN  /\ registers.pc = (LastAt + 2) % 65536
             /\ registers.a = expected.a
             /\ registers.f \div 16 = expected.f \div 16
    /\ HaltedAt(<< 62, 69, 198, 56, 39, 118 >>, 261) =>
         /\ registers.a = 131
         /\ registers.f \div 16 = 0

\* C6: a conditional branch returns its taken cost exactly when its condition
\* holds and its not-taken cost otherwise: JR cc 3/2, JP cc 4/3, CALL cc 6/3,
\* RET cc 5/2.
C6_BranchCost ==
    (Executed /\ LastOp \in {32, 40, 48, 56, 194, 202, 210, 218,
                             196, 204, 212, 220, 192, 200, 208, 216}) =>
        LET f     == before.registers.f
            which == (LastOp \div 8) % 4
            taken == CASE which = 0 -> ~ZOf(f)
                       [] which = 1 -> ZOf(f)
                       [] which = 2 -> ~COf(f)
                       [] which = 3 -> COf(f)
            cost  == CASE LastOp < 64      -> << 3, 2 >>
                       [] LastOp % 8 = 2   -> << 4, 3 >>
                       [] LastOp % 8 = 4   -> << 6, 3 >>
                       [] LastOp % 8 = 0   -> << 5, 2 >>
        IN  /\ fatal = "none"
            /\ cycles = IF taken THEN cost[1] ELSE cost[2]

\* C6 happens: a CALL NZ that is taken and a RET C that is not
C6_Witness ==
    /\ Executed
    /\ \/ LastOp = 196 /\ ~ZOf(before.registers.f) /\ cycles = 6
          /\ registers.sp = (before.registers.sp + 65534) % 65536
       \/ LastOp = 216 /\ ~COf(before.registers.f) /\ cycles = 2

\* C7: the unprefixed opcodes whose execution is fatal are exactly D3, DB, DD,
\* E3, E4, EB, EC, ED, F4, FC, FD: each is fatal in every state, and every
\* other opcode but the CB prefix returns normally.
C7_FatalExactlyUnused ==
    (Executed /\ LastOp # 203) =>
        IF LastOp \in {211, 219, 221, 227, 228, 235, 236, 237, 244, 252, 253}
        THEN fatal # "none"
        ELSE fatal = "none" /\ cycles >= 1

\* C8: CB b returns a cycle count, without a fatal error, for every b.
C8_PrefixedAllExecutable ==
    (Executed /\ LastOp = 203) => (fatal = "none" /\ cycles >= 1)

\* C9: add(a, b) has value (a + b) mod 256, Z = (value = 0), N = false,
\* H = ((a & 0F) + (b & 0F) > 0F), C = (a + b > FF), all four flags present.
C9_Add ==
    alu.fn = "add" =>
        /\ alu.out.value = (alu.a + alu.b) % 256
        /\ alu.out.zero = << (alu.a + alu.b) % 256 = 0 >>
        /\ alu.out.add_sub = << FALSE >>
        /\ alu.out.half_carry = << (alu.a % 16) + (alu.b % 16) > 15 >>
        /\ alu.out.carry = << alu.a + alu.b > 255 >>

\* C9 happens: an addition with a half carry and no carry, and one with a
\* carry, a zero value and no half carry
C9_Witness ==
    /\ alu.fn = "add"
    /\ \/ alu.a = 15 /\ alu.b = 1 /\ alu.out.value = 16
          /\ alu.out.half_carry = << TRUE >> /\ alu.out.carry = << FALSE >>
       \/ alu.a = 240 /\ alu.b = 16 /\ alu.out.value = 0
          /\ alu.out.half_carry = << FALSE >> /\ alu.out.carry = << TRUE >>

\* C10: adc(a, b, c) has value (a + b + c) mod 256, C = (a + b + c > FF) and
\* H = ((a & 0F) + (b & 0F) + c > 0F).
C10_Adc ==
    alu.fn = "adc" =>
        LET c == IF alu.carry THEN 1 ELSE 0
        IN  /\ alu.out.value = (alu.a + alu.b + c) % 256
            /\ alu.out.carry = << alu.a + alu.b + c > 255 >>
            /\ alu.out.half_carry = << (alu.a % 16) + (alu.b % 16) + c > 15 >>

\* Bit i of a byte
BitOf(x, i) == (x \div (2 ^ i)) % 2

\* C11: sub(a, b) has value (a - b) mod 256, Z = (value = 0), N = true,
\* H = ((a & 0F) < (b & 0F)) and C = (a < b).
C11_Sub ==
    alu.fn = "sub" =>
        /\ alu.out.value = (alu.a - alu.b + 256) % 256
        /\ alu.out.zero = << (alu.a - alu.b + 256) % 256 = 0 >>
        /\ alu.out.add_sub = << TRUE >>
        /\ alu.out.half_carry = << (alu.a % 16) < (alu.b % 16) >>
        /\ alu.out.carry = << alu.a < alu.b >>

\* C11 happens: a subtraction that borrows from bit 4 but not out of the
\* byte, and one that borrows out of the byte
C11_Witness ==
    /\ alu.fn = "sub"
    /\ \/ alu.a = 16 /\ alu.b = 1 /\ alu.out.value = 15
          /\ alu.out.half_carry = << TRUE >> /\ alu.out.carry = << FALSE >>
       \/ alu.a = 0 /\ alu.b = 1 /\ alu.out.value = 255
          /\ alu.out.carry = << TRUE >>

\* C12: sbc(a, b, c) has value (a - b - c) mod 256, Z = (value = 0), N = true,
\* H = ((a & 0F) < (b & 0F) + c) and C = (a < b + c).
C12_Sbc ==
    alu.fn = "sbc" =>
        LET c     == IF alu.carry THEN 1 ELSE 0
            value == (alu.a - alu.b - c + 512) % 256
        IN  /\ alu.out.value = value
            /\ alu.out.zero = << value = 0 >>
            /\ alu.out.add_sub = << TRUE >>
            /\ alu.out.half_carry = << (alu.a % 16) < (alu.b % 16) + c >>
            /\ alu.out.carry = << alu.a < alu.b + c >>

\* C13: cp(a, b) has the four flags of sub(a, b), Z = (a = b), N = true,
\* H = ((a & 0F) < (b & 0F)), C = (a < b), and the value a; the opcodes
\* B8 .. BF leave register A unchanged.
C13_Cp ==
    /\ alu.fn = "CP r" =>
        /\ LastOp \in 184 .. 191
        /\ fatal = "none"
        /\ registers.a = before.registers.a
        /\ registers.a = alu.a
    /\ alu.fn = "cp" =>
        /\ alu.out.value = alu.a
        /\ alu.out.zero = << alu.a = alu.b >>
        /\ alu.out.add_sub = << TRUE >>
        /\ alu.out.half_carry = << (alu.a % 16) < (alu.b % 16) >>
        /\ alu.out.carry = << alu.a < alu.b >>
        /\ alu.out.zero = sub(alu.a, alu.b).zero
        /\ alu.out.add_sub = sub(alu.a, alu.b).add_sub
        /\ alu.out.half_carry = sub(alu.a, alu.b).half_carry
        /\ alu.out.carry = sub(alu.a, alu.b).carry

\* C13 happens: cp of a below b, and CP (HL) executed with A below (HL)
C13_Witness ==
    \/ /\ alu.fn = "cp"
       /\ alu.a = 16
       /\ alu.b = 33
       /\ alu.out.value = 16
       /\ alu.out.carry = << TRUE >>
       /\ alu.out.half_carry = << TRUE >>
    \/ /\ alu.fn = "CP r"
       /\ LastOp = 190
       /\ alu.a = 7
       /\ alu.b = 128
       /\ registers.a = 7
       /\ COf(registers.f)

\* C14: and, or, xor return the bitwise AND, OR, XOR of a and b with
\* Z = (value = 0), N = false, C = false, H = true for and, H = false for
\* or and xor.
C14_Logic ==
    alu.fn \in {"and", "or", "xor"} =>
        /\ \A i \in 0 .. 7 :
             BitOf(alu.out.value, i) =
                CASE alu.fn = "and" -> BitOf(alu.a, i) * BitOf(alu.b, i)
                  [] alu.fn = "or"  -> IF BitOf(alu.a, i) + BitOf(alu.b, i) > 0 THEN 1 ELSE 0
                  [] alu.fn = "xor" -> (BitOf(alu.a, i) + BitOf(alu.b, i)) % 2
        /\ alu.out.value \in Byte
        /\ alu.out.zero = << alu.out.value = 0 >>
        /\ alu.out.add_sub = << FALSE >>
        /\ alu.out.carry = << FALSE >>
        /\ alu.out.half_carry = << alu.fn = "and" >>

\* C14 happens: an and with value zero, its half carry set
C14_Witness ==
    /\ alu.fn = "and"
    /\ alu.a = 240
    /\ alu.b = 15
    /\ alu.out.value = 0
    /\ alu.out.zero = << TRUE >>
    /\ alu.out.half_carry = << TRUE >>

\* The 16-bit value of a register pair of a register file
PairOf(r, i) ==
    CASE i = 0 -> r.b * 256 + r.c
      [] i = 1 -> r.d * 256 + r.e
      [] i = 2 -> r.h * 256 + r.l
      [] i = 3 -> r.sp

\* C15: ADD HL,rr (09, 19, 29, 39) sets HL to (HL + rr) mod 2^16, N = 0,
\* H = ((HL & 0FFF) + (rr & 0FFF) > 0FFF) and C = (HL + rr > FFFF), both from
\* the operands before the addition, and leaves Z unchanged; HL = 0FFF,
\* BC = 0001 gives HL = 1000, H = 1, C = 0.
C15_AddHl ==
    (Executed /\ LastOp \in {9, 25, 41, 57}) =>
        LET hl == PairOf(before.registers, 2)
            operand == PairOf(before.registers, LastOp \div 16)
        IN  /\ PairOf(registers, 2) = (hl + operand) % 65536
            /\ ~NOf(registers.f)
            /\ HOf(registers.f) = ((hl % 4096) + (operand % 4096) > 4095)
            /\ COf(registers.f) = (hl + operand > 65535)
            /\ ZOf(registers.f) = ZOf(before.registers.f)

\* C16: ADD SP,e8 (E8) sets SP to (SP + sign_extend(e8)) mod 2^16 and
\* LD HL,SP+e8 (F8) sets HL to that value, both with Z = 0, N = 0,
\* H = ((SP & 0F) + (e8 & 0F) > 0F) and C = ((SP & FF) + e8 > FF).
C16_AddSp ==
    (Executed /\ LastOp \in {232, 248}) =>
        LET sp    == before.registers.sp
            e8    == LastOperand
            value == (sp + SignExtend(e8) + 65536) % 65536
        IN  /\ LastOp = 232 => registers.sp = value
            /\ LastOp = 248 => PairOf(registers, 2) = value
            /\ ~ZOf(registers.f)
            /\ ~NOf(registers.f)
            /\ HOf(registers.f) = ((sp % 16) + (e8 % 16) > 15)
            /\ COf(registers.f) = ((sp % 256) + e8 > 255)

\* C17: LD (nn),SP (08) completes without a fatal error for every SP and
\* every nn, nn = FFFF included, and stores the low byte of SP at nn and the
\* high byte at (nn + 1) mod 2^16.
C17_LdAddrSp ==
    (Executed /\ LastOp = 8) =>
        LET nn == LastOperand + 256 * Rd(before.memory, (LastAt + 2) % 65536)
            sp == before.registers.sp
        IN  /\ fatal = "none"
            /\ Rd(memory, (nn + 1) % 65536) = sp \div 256
            /\ nn # (nn + 1) % 65536 => Rd(memory, nn) = sp % 256
            /\ Rd(memory, nn) + 256 * Rd(memory, (nn + 1) % 65536) = sp

\* C18: whenever execute returns normally, for a base or a CB-prefixed
\* opcode, the cycle count it returns is at least 1.
C18_CyclesPositive ==
    (Executed /\ fatal = "none") => cycles >= 1

\* C18 happens: a CB-prefixed opcode and HALT have returned normally
C18_Witness ==
    /\ Executed
    /\ fatal = "none"
    /\ cycles >= 1
    /\ \/ LastOp = 203 /\ LastOperand = 6
       \/ LastOp = 118

\* C19: every LD r,(HL) (46, 4E, 56, 5E, 66, 6E, 7E) loads the byte at HL
\* into r and returns 2; every register-to-register LD r,r' returns 1.
C19_LdFromHl ==
    (Executed /\ LastOp \in 64 .. 127 /\ LastOp # 118) =>
        LET src   == LastOp % 8
            dst   == (LastOp \div 8) % 8
            r     == registers
            value == CASE dst = 0 -> r.b [] dst = 1 -> r.c [] dst = 2 -> r.d
                       [] dst = 3 -> r.e [] dst = 4 -> r.h [] dst = 5 -> r.l
                       [] dst = 7 -> r.a [] OTHER -> 0
        IN  /\ (src = 6 /\ dst # 6) =>
                 /\ value = Rd(before.memory, PairOf(before.registers, 2))
                 /\ cycles = 2
            /\ (src # 6 /\ dst # 6) => cycles = 1

\* C20: RETI (D9) produces the PC, SP, registers, memory and cycle count (4)
\* that RET (C9) produces from the same state: PC becomes the little-endian
\* word popped from the stack and SP advances past it.
C20_RetiAsRet ==
    (Executed /\ LastOp = 217) =>
        LET sp  == before.registers.sp
            ret == execute([before EXCEPT !.memory = Wr(@, LastAt, 201)], FALSE)
        IN  /\ fatal = "none"
            /\ cycles = 4
            /\ cycles = ret.cycles
            /\ registers = ret.cpu.registers
            /\ memory = before.memory
            /\ registers.pc = Rd(before.memory, sp)
                              + 256 * Rd(before.memory, (sp + 1) % 65536)
            /\ registers.sp = (sp + 2) % 65536

\* C21: STOP (10) at address p consumes the byte after the opcode and
\* leaves PC = p + 2 mod 2^16.
C21_StopConsumesOperand ==
    (Executed /\ LastOp = 16) =>
        /\ fatal = "none"
        /\ registers.pc = (LastAt + 2) % 65536

\* IE (FFFF) and IF (FF0F) have no enabled interrupt pending in mem
NoInterruptPending(mem) == BitAnd(BitAnd(Rd(mem, 65535), Rd(mem, 65295)), 31) = 0

\* C22: after HALT (76) with no enabled interrupt pending the CPU is paused:
\* a later step fetches and executes nothing and leaves PC, registers and
\* memory unchanged.
C22_HaltPauses ==
    (/\ Len(trace) >= 2
     /\ trace[Len(trace) - 1].op = 118
     /\ NoInterruptPending(before.memory))
    => /\ registers = before.registers
       /\ memory = before.memory

\* C23: rlc applied eight times in succession to v returns v, and so does
\* rrc.
C23_RotateEight ==
    /\ alu.fn = "rlc" =>
         /\ alu.out.value = ((alu.a * (2 ^ alu.b)) % 256) + (alu.a \div (2 ^ (8 - alu.b)))
         /\ alu.b = 8 => alu.out.value = alu.a
    /\ alu.fn = "rrc" =>
         /\ alu.out.value = (alu.a \div (2 ^ alu.b)) + ((alu.a * (2 ^ (8 - alu.b))) % 256)
         /\ alu.b = 8 => alu.out.value = alu.a

\* C23 happens: eight rlc of 81 and eight rrc of 81, the last one carrying
C23_Witness ==
    /\ alu.fn \in {"rlc", "rrc"}
    /\ alu.b = 8
    /\ alu.a = 129
    /\ alu.out.value = 129
    /\ alu.out.carry = << TRUE >>

\* C24: dec(inc(v).value).value = v and inc(dec(v).value).value = v, with
\* wrap at FF / 00, and the Z, N, H of the composite are those of the second
\* operation alone on its input.
C24_IncDecInverse ==
    /\ alu.fn = "inc;dec" =>
         /\ alu.b = (alu.a + 1) % 256
         /\ alu.out.value = alu.a
         /\ alu.out.zero = << alu.a = 0 >>
         /\ alu.out.add_sub = << TRUE >>
         /\ alu.out.half_carry = << alu.b % 16 = 0 >>
    /\ alu.fn = "dec;inc" =>
         /\ alu.b = (alu.a + 255) % 256
         /\ alu.out.value = alu.a
         /\ alu.out.zero = << alu.a = 0 >>
         /\ alu.out.add_sub = << FALSE >>
         /\ alu.out.half_carry = << alu.b % 16 = 15 >>

\* C24 happens: the wrap at FF -> 00 -> FF and at 00 -> FF -> 00
C24_Witness ==
    \/ alu.fn = "inc;dec" /\ alu.a = 255 /\ alu.b = 0 /\ alu.out.value = 255
       /\ alu.out.half_carry = << TRUE >>
    \/ alu.fn = "dec;inc" /\ alu.a = 0 /\ alu.b = 255 /\ alu.out.value = 0
       /\ alu.out.zero = << TRUE >> /\ alu.out.half_carry = << TRUE >>

\* C25: DAA (27): with N = 0, A += 60 and C := 1 if C or A > 99, and A += 06
\* if H or (A & 0F) > 9; with N = 1, A -= 60 if C and A -= 06 if H, all mod
\* 256 on the original A; then Z = (A = 0), H = 0, N unchanged, C otherwise
\* unchanged.
C25_Daa ==
    alu.fn = "DAA" =>
        LET a0   == before.registers.a
            f0   == before.registers.f
            high == IF NOf(f0) THEN COf(f0) ELSE COf(f0) \/ a0 > 153
            low  == IF NOf(f0) THEN HOf(f0) ELSE HOf(f0) \/ (a0 % 16) > 9
            by   == (IF high THEN 96 ELSE 0) + (IF low THEN 6 ELSE 0)
            a1   == IF NOf(f0) THEN (a0 - by + 256) % 256 ELSE (a0 + by) % 256
        IN  /\ LastOp = 39
            /\ a0 = alu.a
            /\ f0 = alu.b
            /\ fatal = "none"
            /\ registers.a = a1
            /\ ZOf(registers.f) = (a1 = 0)
            /\ ~HOf(registers.f)
            /\ NOf(registers.f) = NOf(f0)
            /\ COf(registers.f) = (COf(f0) \/ (~NOf(f0) /\ a0 > 153))
            /\ registers.f % 16 = 0
            /\ [registers EXCEPT !.a = 0, !.f = 0, !.pc = 0]
                 = [before.registers EXCEPT !.a = 0, !.f = 0, !.pc = 0]

\* C25 happens: 7D with N = H = C = 0 becomes 83, and 9A becomes 00 with C
C25_Witness ==
    /\ alu.fn = "DAA"
    /\ \/ before.registers.a = 125 /\ before.registers.f = 0
          /\ registers.a = 131 /\ registers.f = 0
       \/ before.registers.a = 154 /\ before.registers.f = 0
          /\ registers.a = 0 /\ registers.f = 144

\* The 8-bit register i of a register file: B, C, D, E, H, L, -, A
RegOf(r, i) ==
    CASE i = 0 -> r.b [] i = 1 -> r.c [] i = 2 -> r.d [] i = 3 -> r.e
      [] i = 4 -> r.h [] i = 5 -> r.l [] i = 7 -> r.a

\* C26: every 8-bit INC / DEC opcode leaves C unchanged, sets Z from the
\* result, N = 0 for INC and N = 1 for DEC, H = ((v & 0F) = 0F) for INC and
\* H = ((v & 0F) = 00) for DEC, v the operand before the operation.
C26_IncDecFlags ==
    alu.fn \in {"INC r", "DEC r"} =>
        LET i      == alu.b
            isInc  == alu.fn = "INC r"
            at     == PairOf(before.registers, 2)
            v      == IF i = 6 THEN Rd(before.memory, at) ELSE RegOf(before.registers, i)
            result == IF isInc THEN (v + 1) % 256 ELSE (v + 255) % 256
        IN  /\ LastOp = i * 8 + (IF isInc THEN 4 ELSE 5)
            /\ v = alu.a
            /\ fatal = "none"
            /\ IF i = 6 THEN Rd(memory, at) = result ELSE RegOf(registers, i) = result
            /\ COf(registers.f) = COf(before.registers.f)
            /\ ZOf(registers.f) = (result = 0)
            /\ NOf(registers.f) = ~isInc
            /\ HOf(registers.f) = IF isInc THEN v % 16 = 15 ELSE v % 16 = 0

\* C26 happens: INC (HL) of FF with C clear, and DEC B of 10 with C set
C26_Witness ==
    \/ /\ alu.fn = "INC r"
       /\ LastOp = 52
       /\ alu.a = 255
       /\ ~COf(before.registers.f)
       /\ registers.f \div 16 = 10
    \/ /\ alu.fn = "DEC r"
       /\ LastOp = 5
       /\ alu.a = 16
       /\ COf(before.registers.f)
       /\ registers.b = 15
       /\ HOf(registers.f)
       /\ COf(registers.f)

\* C28: sra(v) has value (v >> 1) | (v & 80), Z = (value = 0), N = false,
\* H = false and a carry equal to bit 0 of v, the bit shifted out.
C28_Sra ==
    alu.fn = "sra" =>
        LET value == (alu.a \div 2) + 128 * (alu.a \div 128)
        IN  /\ alu.out.value = value
            /\ alu.out.zero = << value = 0 >>
            /\ alu.out.add_sub = << FALSE >>
            /\ alu.out.half_carry = << FALSE >>
            /\ alu.out.carry = << alu.a % 2 = 1 >>

\* C27: a CB-prefixed rotate / shift opcode in 00 .. 2F whose low three bits
\* select a register r replaces r with op(old r), sets Z = (result = 0),
\* N = 0, H = 0 and C from op(old r), and leaves every other 8-bit register,
\* SP and memory unchanged; so do RRC H (CB 0C) and RRC L (CB 0D).
C27_PrefixedRegister ==
    (Executed /\ LastOp = 203 /\ LastOperand \in 0 .. 47 /\ LastOperand % 8 # 6) =>
        LET i      == LastOperand % 8
            old    == RegOf(before.registers, i)
            result == CbOp(LastOperand \div 8, old, before.registers.f)
        IN  /\ fatal = "none"
            /\ RegOf(registers, i) = result.value
            /\ ZOf(registers.f) = (result.value = 0)
            /\ ~NOf(registers.f)
            /\ ~HOf(registers.f)
            /\ << COf(registers.f) >> = result.carry
            /\ \A j \in (0 .. 7) \ {i, 6} :
                 RegOf(registers, j) = RegOf(before.registers, j)
            /\ registers.sp = before.registers.sp
            /\ memory = before.memory

\* C29: in an execution from the post-boot state that never executes POP AF
\* (F1), the low nibble of F is zero in every state.
C29_FLowNibbleWithoutPopAf ==
    (\A k \in 1 .. Len(trace) : trace[k].op # 241) => registers.f % 16 = 0

\* C29 happens: three instructions, none a POP AF, that have changed F
C29_Witness ==
    /\ Len(trace) >= 3
    /\ \A k \in 1 .. Len(trace) : trace[k].op # 241
    /\ \E k \in 1 .. Len(trace) : trace[k].registers.f # registers.f
    /\ registers.f # 176
    /\ fatal = "none"

\* The registers the call of execute number k left
After(k) == IF k = Len(trace) THEN registers ELSE trace[k + 1].registers

\* From call k of execute on, with the pending calls on the stack: each RET
\* returns to the address after its CALL, and the outermost RET restores SP
RECURSIVE Lifo(_, _)
Lifo(k, pending) ==
    IF k > Len(trace) THEN TRUE
    ELSE LET r == trace[k].registers
         IN  CASE trace[k].op = 205 ->
                    Lifo(k + 1, << [next |-> (r.pc + 3) % 65536, sp |-> r.sp] >> \o pending)
               [] trace[k].op = 201 /\ pending # << >> ->
                    /\ After(k).pc = Head(pending).next
                    /\ Len(pending) = 1 => After(k).sp = Head(pending).sp
                    /\ Lifo(k + 1, Tail(pending))
               [] trace[k].op = 0 -> Lifo(k + 1, pending)
               [] OTHER -> TRUE

\* C30: in a properly nested sequence of CALL a16 (CD) and RET (C9) each RET
\* sets PC to the address after its matching CALL, also two or more deep,
\* and after the outermost RET SP is what it was before the outermost CALL.
C30_CallRetLifo == fatal = "none" => Lifo(1, << >>)

=============================================================================
